---- MODULE Spec2Model ----
(***************************************************************************)
(* ExpenseSyncBot: the receipt workflow (process_receipt_with_agents and   *)
(* the persistence tools it reaches), the MCP client session (MCPClient,   *)
(* MCPClientManager), the coroutines that use the tool server at the same  *)
(* time, the batch pipeline (process_transactions of                       *)
(* ExpenseSyncOrchestrator), get_next_row, the server process manager      *)
(* (MCPServerManager behind run_agent_pipeline) and TransactionValidator.  *)
(*                                                                         *)
(* Python's None is the string "None"; a raised exception is a result      *)
(* record with raised = TRUE and the exception text in exc.                *)
(***************************************************************************)
EXTENDS Integers, Sequences, FiniteSets, TLC

VARIABLES
    \* ---- one run of process_receipt_with_agents -------------------------
    pc,              \* position of the workflow
    turns,           \* Runner.run: model calls made so far
    pending,         \* tool calls of the current model round not yet run
    catRequested,    \* categorize_expense calls the model has requested
    catDispatched,   \* categorize_expense calls that were run
    saveDispatched,  \* save_expense was run at least once
    writeAcked,      \* a write_range reached the server and was not refused
    innerCalls,      \* tool calls made by the persistence agent in this save
    runnerRuns,      \* Runner.run invocations made by this workflow
    runOutcome,      \* how Runner.run ended
    finalOutput,     \* result.final_output of the run
    response,        \* the ProcessReceiptResponse returned
    lastTool,        \* the last write_range / get_ranges / get_next_row call
    \* ---- the MCP client session ----------------------------------------
    mgrClient,       \* MCPClientManager._client is not None
    clientSession,   \* MCPClient._session: "None", "open" or "closed"
    clientTools,     \* MCPClient._tools (the names)
    clientConnected, \* MCPClient._connected
    connPc,          \* position of a running MCPClient.connect
    attempt,         \* loop index of MCPClient.connect
    connectResult,   \* what the last MCPClient.connect returned
    lastCall,        \* the last call_tool invocation and its result
    lastStartup,     \* the last MCPClientManager.startup and what it returned
    slept,           \* the delays MCPClient.connect has slept, in order
    \* ---- coroutines that use the tool server at the same time ----------
    serverMode,      \* the tool server: "up", "down" or "silent"
    sheet,           \* the rows of the sheet that hold data: who wrote each
    callers,         \* each coroutine: its operation, position and results
    \* ---- one ExpenseSyncOrchestrator.process_transactions ---------------
    bpc,             \* position of process_transactions
    orch,            \* the orchestrator: _mcp_session is set, enable_validation
    txs,             \* the transactions of the batch, by id
    outputs,         \* tool outputs of the running agent handled so far
    lastFailed,      \* applying the last tool output raised and was logged
    submitted,       \* ids given to the validation agent
    handed,          \* ids given to the writer step
    acked,           \* ids whose row the tool server acknowledged
    written,         \* results["written"]
    \* ---- one get_next_row call -------------------------------------------
    toolInput,       \* range_to_read and what the remote read does
    toolOutput,      \* the JSON get_next_row returned
    \* ---- MCPServerManager and run_agent_pipeline -------------------------
    pipePc,          \* position of run_agent_pipeline
    server,          \* the manager: _process (0: None) and _is_running
    procs,           \* the server processes spawned so far: state of each
    \* ---- TransactionValidator --------------------------------------------
    rules,           \* TransactionValidator.rules
    applied          \* the last _apply_rules: the transaction, the rules applied

wfVars == <<pc, turns, pending, catRequested, catDispatched, saveDispatched,
            writeAcked, innerCalls, runnerRuns, runOutcome, finalOutput,
            response, lastTool>>

sessVars == <<mgrClient, clientSession, clientTools, clientConnected, connPc,
              attempt, connectResult, lastCall, lastStartup, slept>>

callerVars == <<serverMode, sheet, callers>>

batchVars == <<bpc, orch, txs, outputs, lastFailed, submitted, handed, acked,
               written>>

toolVars == <<toolInput, toolOutput>>

serverVars == <<pipePc, server, procs>>

validatorVars == <<rules, applied>>

vars == <<pc, turns, pending, catRequested, catDispatched, saveDispatched,
          writeAcked, innerCalls, runnerRuns, runOutcome, finalOutput,
          response, lastTool, mgrClient, clientSession, clientTools,
          clientConnected, connPc, attempt, connectResult, lastCall,
          lastStartup, slept, serverMode, sheet, callers, bpc, orch, txs,
          outputs, lastFailed, submitted, handed, acked, written, toolInput,
          toolOutput, pipePc, server, procs, rules, applied>>

None == "None"

(***************************************************************************)
(* Bounds of the model and constants of the program.                       *)
(***************************************************************************)
\* tool calls the model backend may request in one round
MaxCallsPerRound == 2

\* tool calls the persistence agent may make while serving one save_expense
MaxInnerCalls == 2

\* rows a read of the sheet may return
MaxRows == 2

\* categorize_expense requests the model backend may make in one workflow
MaxCatRequests == 5

\* coroutines that use the tool server at the same time
MaxCallers == 2

\* Runner.run is called without max_turns: the agents SDK default
MaxTurns == 10

\* settings.orchestrator.max_correction_attempts
max_correction_attempts == 3

\* settings.mcp.retry_attempts
retry_attempts == 3

\* settings.mcp.retry_delay, in seconds
retry_delay == 1

TOOL_CATEGORIZE_EXPENSE == "categorize_expense"

TOOL_VALIDATE_CATEGORIZATION == "validate_categorization"

TOOL_SAVE_EXPENSE == "save_expense"

TOOL_GET_RANGES == "get_ranges"

TOOL_WRITE_RANGE == "write_range"

TOOL_GET_NEXT_ROW == "get_next_row"

\* the tools handed to the orchestrator agent
AGENT_TOOLS == {TOOL_CATEGORIZE_EXPENSE, TOOL_VALIDATE_CATEGORIZATION, TOOL_SAVE_EXPENSE}

\* the function tools handed to the persistence agent
PERSISTENCE_TOOLS == {TOOL_GET_NEXT_ROW, TOOL_GET_RANGES, TOOL_WRITE_RANGE}

(***************************************************************************)
(* What one remote request can do.  The connection is opened per call by   *)
(* MCPClientManager.call_tool, so a call can fail before anything is sent. *)
(***************************************************************************)
\* sse_client / ClientSession cannot be opened: the server is unreachable
K_CONNECT_ERROR == "connect_error"

\* session.initialize raises
K_INIT_ERROR == "init_error"

\* session.call_tool raises (transport exception, timeout, protocol error)
K_CALL_ERROR == "call_error"

\* the server answers with an error result (isError, text = the error)
K_SERVER_ERROR == "server_error"

\* result.content is empty
K_NO_CONTENT == "no_content"

\* result.content holds no block with a text attribute
K_NO_TEXT == "no_text"

\* the text is not JSON
K_TEXT_PLAIN == "text_plain"

\* the text is a JSON object without a "success" key
K_JSON_OBJECT == "json_object"

\* the text is the JSON object {"success": false, "error": ...}
K_JSON_FAILURE == "json_failure"

\* the text is the JSON object {"success": false}
K_JSON_FAILURE_NOERR == "json_failure_noerr"

\* the text is JSON but not an object (an array, a number)
K_JSON_NON_OBJECT == "json_non_object"

OutcomeKinds == {K_CONNECT_ERROR, K_INIT_ERROR, K_CALL_ERROR, K_SERVER_ERROR,
                 K_NO_CONTENT, K_NO_TEXT, K_TEXT_PLAIN, K_JSON_OBJECT,
                 K_JSON_FAILURE, K_JSON_FAILURE_NOERR, K_JSON_NON_OBJECT}

\* the request never reached a live session
NotSentKinds == {K_CONNECT_ERROR, K_INIT_ERROR}

\* the remote call failed: unreachable, transport exception, server-reported error
FailureKinds == {K_CONNECT_ERROR, K_INIT_ERROR, K_CALL_ERROR, K_SERVER_ERROR,
                 K_JSON_FAILURE, K_JSON_FAILURE_NOERR}

\* rows = number of rows in ValueRanges[0].Values of a JSON object; -1: no ValueRanges
CallOutcomes == [kind : OutcomeKinds \ {K_JSON_OBJECT}, rows : {-1}]
                \cup [kind : {K_JSON_OBJECT}, rows : -1 .. MaxRows]

\* str(e) of the exception a failed call raises
ExcText(kind) ==
    CASE kind = K_CONNECT_ERROR -> "All connection attempts failed"
      [] kind = K_INIT_ERROR -> "initialize failed"
      [] kind = K_CALL_ERROR -> "Connection closed"
      [] kind = K_JSON_NON_OBJECT -> "argument after ** must be a mapping"
      [] OTHER -> None

\* the text of the content block the server sent
ServerText(kind) ==
    CASE kind = K_SERVER_ERROR -> "An error occurred invoking the tool"
      [] kind = K_TEXT_PLAIN -> "OK"
      [] kind = K_JSON_FAILURE -> "range not found"
      [] OTHER -> None

\* a call result: the dict returned, or the exception raised
\* sent: session.call_tool requests made; connects: connections opened
CallResult(raised, exc, success, error, result, rows, sent, connects) ==
    [raised |-> raised, exc |-> exc, success |-> success, error |-> error,
     result |-> result, rows |-> rows, sent |-> sent, connects |-> connects]

NoResult == CallResult(FALSE, None, FALSE, None, None, -1, 0, 0)

(***************************************************************************)
(* MCPClientManager.call_tool and MCPClient.call_tool as functions of what *)
(* the request does.                                                       *)
(***************************************************************************)
\* the statements inside the try of MCPClientManager.call_tool
ManagerCallBody(o) ==
    CASE o.kind = K_CONNECT_ERROR -> CallResult(TRUE, ExcText(o.kind), FALSE, None, None, -1, 0, 1)
      [] o.kind = K_INIT_ERROR -> CallResult(TRUE, ExcText(o.kind), FALSE, None, None, -1, 0, 1)
      [] o.kind = K_CALL_ERROR -> CallResult(TRUE, ExcText(o.kind), FALSE, None, None, -1, 1, 1)
      [] o.kind = K_JSON_NON_OBJECT -> CallResult(TRUE, ExcText(o.kind), FALSE, None, None, -1, 1, 1)
      [] o.kind = K_JSON_OBJECT -> CallResult(FALSE, None, TRUE, None, None, o.rows, 1, 1)
      [] o.kind = K_JSON_FAILURE -> CallResult(FALSE, None, FALSE, ServerText(o.kind), None, -1, 1, 1)
      [] o.kind = K_JSON_FAILURE_NOERR -> CallResult(FALSE, None, FALSE, None, None, -1, 1, 1)
      [] o.kind \in {K_TEXT_PLAIN, K_SERVER_ERROR} ->
            CallResult(FALSE, None, TRUE, None, ServerText(o.kind), -1, 1, 1)
      [] OTHER -> CallResult(FALSE, None, TRUE, None, None, -1, 1, 1)

\* a manager call that sends the request again when the first one raised
ManagerCallTool_Retries(o) ==
    LET b == ManagerCallBody(o)
    IN  IF b.raised
        THEN CallResult(FALSE, None, FALSE, b.exc, None, -1, 2 * b.sent, b.connects + 1)
        ELSE b

\* MCPClientManager.call_tool: a fresh connection, one request, every
\* exception turned into {"success": False, "error": str(e)}
ManagerCallTool(o) ==
    LET b == ManagerCallBody(o)
    IN  IF b.raised
        THEN CallResult(FALSE, None, FALSE, b.exc, None, -1, b.sent, b.connects)
        ELSE b

\* the statements inside the try of MCPClient.call_tool, on the held session
ClientCallBody(o) ==
    CASE o.kind = K_CALL_ERROR -> CallResult(TRUE, ExcText(o.kind), FALSE, None, None, -1, 1, 0)
      [] o.kind = K_JSON_NON_OBJECT -> CallResult(TRUE, ExcText(o.kind), FALSE, None, None, -1, 1, 0)
      [] o.kind = K_JSON_OBJECT -> CallResult(FALSE, None, TRUE, None, None, o.rows, 1, 0)
      [] o.kind = K_JSON_FAILURE -> CallResult(FALSE, None, FALSE, ServerText(o.kind), None, -1, 1, 0)
      [] o.kind = K_JSON_FAILURE_NOERR -> CallResult(FALSE, None, FALSE, None, None, -1, 1, 0)
      [] o.kind \in {K_TEXT_PLAIN, K_SERVER_ERROR} ->
            CallResult(FALSE, None, TRUE, None, ServerText(o.kind), -1, 1, 0)
      [] OTHER -> CallResult(FALSE, None, TRUE, None, None, -1, 1, 0)

\* MCPClient.is_connected
IsConnected(connected, session) == connected /\ session # None

\* a client call that connects by itself when the session is not connected
ClientCallTool_Reconnects(connected, session, tools, name, o) ==
    LET b == ClientCallBody(o)
        c == IF IsConnected(connected, session) THEN 0 ELSE 1
    IN  IF name \notin tools
        THEN CallResult(TRUE, "Tool not found", FALSE, None, None, -1, 0, c)
        ELSE IF b.raised
        THEN CallResult(FALSE, None, FALSE, b.exc, None, -1, b.sent, c)
        ELSE [b EXCEPT !.connects = c]

\* MCPClient.call_tool: RuntimeError when not connected or the tool is
\* unknown, otherwise one request on the held session
ClientCallTool(connected, session, tools, name, o) ==
    IF ~IsConnected(connected, session) \/ session = None
    THEN CallResult(TRUE, "Not connected to MCP server", FALSE, None, None, -1, 0, 0)
    ELSE IF name \notin tools
    THEN CallResult(TRUE, "Tool not found", FALSE, None, None, -1, 0, 0)
    ELSE LET b == ClientCallBody(o)
         IN  IF b.raised
             THEN CallResult(FALSE, None, FALSE, b.exc, None, -1, b.sent, b.connects)
             ELSE b

(***************************************************************************)
(* The function tools of the persistence agent.  Each returns a JSON text; *)
(* here the record of its keys.                                            *)
(***************************************************************************)
ToolResult(raised, success, error, next_row) ==
    [raised |-> raised, success |-> success, error |-> error, next_row |-> next_row]

NoToolResult == ToolResult(FALSE, FALSE, None, 0)

\* result.get("error", default)
GetError(r, default) == IF r.error # None THEN r.error ELSE default

\* write_range
WriteRangeTool(o) ==
    LET r == ManagerCallTool(o)
    IN  IF r.raised THEN ToolResult(FALSE, FALSE, r.exc, 0)
        ELSE IF r.success THEN ToolResult(FALSE, TRUE, None, 0)
        ELSE ToolResult(FALSE, FALSE, GetError(r, "Error desconocido del servidor MCP"), 0)

\* get_ranges
GetRangesTool(o) ==
    LET r == ManagerCallTool(o)
    IN  IF r.raised THEN ToolResult(FALSE, FALSE, r.exc, 0)
        ELSE IF r.success THEN ToolResult(FALSE, TRUE, None, 0)
        ELSE ToolResult(FALSE, FALSE, GetError(r, "Error desconocido del servidor MCP"), 0)

\* a get_next_row that gives the last row that holds data
GetNextRowTool_LastRow(o) ==
    LET r == ManagerCallTool(o)
    IN  IF r.raised THEN ToolResult(FALSE, FALSE, r.exc, 0)
        ELSE IF ~r.success THEN ToolResult(FALSE, FALSE, GetError(r, "Error reading sheet data"), 0)
        ELSE IF r.rows >= 1 THEN ToolResult(FALSE, TRUE, None, r.rows)
        ELSE ToolResult(FALSE, FALSE, "Could not determine next row number", 0)

\* get_next_row: the next row is the number of rows read plus one
GetNextRowTool(o) ==
    LET r == ManagerCallTool(o)
    IN  IF r.raised THEN ToolResult(FALSE, FALSE, r.exc, 0)
        ELSE IF ~r.success THEN ToolResult(FALSE, FALSE, GetError(r, "Error reading sheet data"), 0)
        ELSE IF r.rows >= 1 THEN ToolResult(FALSE, TRUE, None, r.rows + 1)
        ELSE ToolResult(FALSE, FALSE, "Could not determine next row number", 0)

\* the function tool behind a name
RunTool(tool, o) ==
    CASE tool = TOOL_WRITE_RANGE -> WriteRangeTool(o)
      [] tool = TOOL_GET_RANGES -> GetRangesTool(o)
      [] OTHER -> GetNextRowTool(o)

(***************************************************************************)
(* process_receipt_with_agents: the mapping of the run's outcome to the    *)
(* ProcessReceiptResponse.                                                 *)
(***************************************************************************)
\* ProcessingStatus
STATUS_SUCCESS == "success"

STATUS_VALIDATION_FAILED == "validation_failed"

STATUS_CATEGORIZATION_FAILED == "categorization_failed"

STATUS_MCP_ERROR == "mcp_error"

STATUS_ERROR == "error"

ProcessingStatus == {STATUS_SUCCESS, STATUS_VALIDATION_FAILED,
                     STATUS_CATEGORIZATION_FAILED, STATUS_MCP_ERROR, STATUS_ERROR}

\* ProcessReceiptResponse; message and errors are tuples of their parts
ProcessReceiptResponse(status, message, data, attempts, errors) ==
    [status |-> status, message |-> message, data |-> data,
     attempts |-> attempts, errors |-> errors]

\* nothing was returned
NoResponse == ProcessReceiptResponse("none", <<>>, None, 0, <<>>)

\* the structured final output the orchestrator agent is asked for
OrchestratorResults ==
    [present : {TRUE}, success : BOOLEAN,
     expense_data : {None, "CategorizedExpense(MERCADONA)"},
     error_message : {None, "", "No se pudo conectar con el servidor MCP"},
     sheet_row : {None, "Gastos!A55:E55"}]

\* result.final_output is None
NoOutput == [present |-> FALSE, success |-> FALSE, expense_data |-> None,
             error_message |-> None, sheet_row |-> None]

\* Python truth of an optional string or object
Truthy(x) == x # None /\ x # ""

\* expense_data.model_dump()
ModelDump(e) ==
    CASE e = "CategorizedExpense(MERCADONA)" -> "{descripcion: MERCADONA, importe: 15,67, categoria: Alimentacion}"
      [] OTHER -> None

\* str(e) of the exceptions Runner.run raises
E_MAX_TURNS == "Max turns (10) exceeded"

E_MODEL_BACKEND == "Connection error."

\* the branch taken when final_output is falsy
NoOutputResponse ==
    ProcessReceiptResponse(STATUS_ERROR, <<"El orquestador no devolvio respuesta">>,
                           None, 1, <<"No output from orchestrator">>)

\* the branch taken when orchestrator_result.success is true
SuccessResponse(res) ==
    ProcessReceiptResponse(
        STATUS_SUCCESS,
        IF Truthy(res.sheet_row) /\ Truthy(res.expense_data)
        THEN <<"Gasto guardado exitosamente en ", res.sheet_row, res.expense_data>>
        ELSE <<"Gasto procesado exitosamente">>,
        IF Truthy(res.expense_data) THEN ModelDump(res.expense_data) ELSE None,
        1, <<>>)

\* a failure branch that passes the model's expense_data on
FailureResponse_LeaksData(res) ==
    LET error_msg == IF Truthy(res.error_message) THEN res.error_message
                     ELSE "Error desconocido en el procesamiento"
    IN  ProcessReceiptResponse(STATUS_ERROR, <<error_msg>>,
                               ModelDump(res.expense_data), 1, <<error_msg>>)

\* the branch taken when orchestrator_result.success is false
FailureResponse(res) ==
    LET error_msg == IF Truthy(res.error_message) THEN res.error_message
                     ELSE "Error desconocido en el procesamiento"
    IN  ProcessReceiptResponse(STATUS_ERROR, <<error_msg>>, None, 1, <<error_msg>>)

\* the except branch
ExceptionResponse(e) ==
    ProcessReceiptResponse(STATUS_ERROR, <<"Error interno: ", e>>, None, 1, <<e>>)

\* the statements after Runner.run returned
MapOrchestratorResult(res) ==
    IF ~res.present THEN NoOutputResponse
    ELSE IF res.success THEN SuccessResponse(res)
    ELSE FailureResponse(res)

(***************************************************************************)
(* The run loop behind Runner.run(orchestrator, message) and the tools it  *)
(* dispatches.                                                             *)
(***************************************************************************)
\* a turn limit compared before the turn is counted
TurnLimitExceeded_OffByOne(t) == t > MaxTurns

\* the next model call would be turn number t + 1, more than max_turns
TurnLimitExceeded(t) == t + 1 > MaxTurns

\* the tool calls of one model round, in the order returned
ToolRequests == UNION {[1 .. n -> AGENT_TOOLS] : n \in 1 .. MaxCallsPerRound}

RECURSIVE Count(_, _)
Count(seq, x) ==
    IF seq = <<>> THEN 0
    ELSE (IF Head(seq) = x THEN 1 ELSE 0) + Count(Tail(seq), x)

\* a function tool call: what the request did, what MCPClientManager.call_tool
\* returned to the tool, and what the tool returned
NoTool == [tool |-> "none", kind |-> "none", call |-> NoResult, result |-> NoToolResult]

\* the write reached the server and the server did not refuse it
ServerAcked(tool, o) == tool = TOOL_WRITE_RANGE /\ o.kind \notin FailureKinds
                        /\ o.kind # K_JSON_NON_OBJECT

\* where the loop goes once a tool call of the round is done
AfterDispatch(rest) == IF rest = <<>> THEN "awaiting_model" ELSE "dispatching"

(***************************************************************************)
(* Ranges in A1 notation are sequences of tokens: a sheet name, "!", ":",  *)
(* a column letter or a row number.                                        *)
(***************************************************************************)
\* the ranges the persistence agent may ask get_next_row to read
RangesToRead == {<<"Gastos", "!", "A", "1", ":", "E", "200">>,
                 <<"A", "1", ":", "E", "200">>}

NoRange == <<>>

\* the column letters: str.isalpha of a token
IsAlpha(tok) == tok \in {"A", "B", "C", "D", "E"}

IsDigits(tok) == ~IsAlpha(tok)

RECURSIVE SplitFrom(_, _, _)
SplitFrom(seq, sep, piece) ==
    IF seq = <<>> THEN <<piece>>
    ELSE IF Head(seq) = sep THEN <<piece>> \o SplitFrom(Tail(seq), sep, <<>>)
    ELSE SplitFrom(Tail(seq), sep, Append(piece, Head(seq)))

\* str.split(sep)
Split(seq, sep) == SplitFrom(seq, sep, <<>>)

\* the range used when range_to_read cannot be parsed
DefaultRangeToWrite(next_row) ==
    <<"Gastos", "!", "A", ToString(next_row), ":", "E", ToString(next_row)>>

\* get_next_row: range_to_write, built from the parts of range_to_read and
\* the row number counted
RangeToWrite(range_to_read, next_row) ==
    LET parts == Split(range_to_read, "!")
    IN  IF Len(parts) # 2 THEN DefaultRangeToWrite(next_row)
        ELSE LET cells == Split(parts[2], ":")
             IN  IF Len(cells) # 2 THEN DefaultRangeToWrite(next_row)
                 ELSE parts[1] \o <<"!">>
                      \o SelectSeq(cells[1], IsAlpha) \o <<ToString(next_row)>>
                      \o <<":">>
                      \o SelectSeq(cells[2], IsAlpha) \o <<ToString(next_row)>>

(***************************************************************************)
(* Coroutines that use the tool server at the same time: workflows in      *)
(* their persistence step, the tool listing and the startup handshake.     *)
(***************************************************************************)
Callers == 1 .. MaxCallers

\* the header row and one row per workflow
MaxSheetRows == MaxCallers + 1

OP_GET_AVAILABLE_TOOLS == "get_available_tools"

OP_TRY_CONNECT == "_try_connect"

\* up: answers; down: refuses connections and drops the open ones;
\* silent: accepts connections and never answers a request
ServerModes == {"up", "down", "silent"}

\* the row a range names, as the tool server reads it
RowOf(range) ==
    LET cell == Split(Split(range, "!")[2], ":")[1]
        digits == SelectSeq(cell, IsDigits)
    IN  CHOOSE n \in 1 .. MaxSheetRows : ToString(n) = digits[1]

\* the sheet after caller p wrote the row
WriteRow(rows, row, p) ==
    IF row <= Len(rows) THEN [rows EXCEPT ![row] = p] ELSE Append(rows, p)

(***************************************************************************)
(* The batch pipeline: ExpenseSyncOrchestrator.process_transactions and    *)
(* its three steps.  A text that the code joins with " | " is the sequence *)
(* of its parts.                                                           *)
(***************************************************************************)
\* tool outputs one agent run may leave in result.new_items
MaxOutputs == 2

\* the ids of the transactions a batch may hold
TxIds == {"tx1", "tx2"}

\* an id the model made up
UnknownTxId == "tx9"

\* TransactionAction
REGISTER == "register"

SKIP == "skip"

REVIEW == "review"

TransactionActions == {REGISTER, SKIP, REVIEW}

\* a value TransactionAction(...) raises ValueError for
INVALID_ACTION == "ignore"

\* an optional text: None, or the parts of a string ('' has no parts)
Text(parts) == [none |-> FALSE, parts |-> parts]

NoneText == [none |-> TRUE, parts |-> <<>>]

\* notes or ''
OrEmpty(text) == text.parts

\* f"{existing} | {added}".strip(" |")
JoinNote(existing, added) ==
    Text(IF added = "" THEN existing ELSE Append(existing, added))

\* a Transaction as the bank client built it: the fields the agents touch
NewTransaction == [category |-> None, action |-> REGISTER, skip_reason |-> None,
                   notes |-> NoneText]

\* json.loads of a tool output raised JSONDecodeError
NotJson == [json |-> FALSE, transaction_id |-> UnknownTxId, category |-> "",
            action |-> "", skip_reason |-> "", notes |-> ""]

\* the outputs of categorize_transaction the run may hold
CategorizationOutputs ==
    [json : {TRUE}, transaction_id : TxIds \cup {UnknownTxId},
     category : {"Alimentacion"},
     action : TransactionActions \cup {INVALID_ACTION},
     skip_reason : {"", "transferencia interna"}, notes : {"", "n1"}]
    \cup {NotJson}

\* the body of the try in _run_categorization for one output: the
\* assignments made before TransactionAction raises stay
ApplyCategorization(ts, out) ==
    IF ~out.json THEN [txs |-> ts, failed |-> TRUE]
    ELSE IF out.transaction_id \notin DOMAIN ts THEN [txs |-> ts, failed |-> FALSE]
    ELSE LET id == out.transaction_id
             t1 == [ts[id] EXCEPT !.category = out.category]
         IN  IF out.action \notin TransactionActions
             THEN [txs |-> [ts EXCEPT ![id] = t1], failed |-> TRUE]
             ELSE [txs |-> [ts EXCEPT ![id] =
                              [t1 EXCEPT !.action = out.action,
                                         !.skip_reason = out.skip_reason,
                                         !.notes = Text(IF out.notes = "" THEN <<>>
                                                        ELSE <<out.notes>>)]],
                   failed |-> FALSE]

\* the outputs of validate_categorization and flag_for_manual_review, and a
\* text that is not JSON
ValidationOutputs ==
    [json : {TRUE}, transaction_id : TxIds \cup {UnknownTxId},
     is_valid : BOOLEAN, corrected_category : {"", "Hogar"},
     corrected_action : {"", SKIP, INVALID_ACTION},
     validation_notes : {"", "v1"}, flagged : {FALSE}, reason : {""}]
    \cup [json : {TRUE}, transaction_id : TxIds \cup {UnknownTxId},
          is_valid : {TRUE}, corrected_category : {""}, corrected_action : {""},
          validation_notes : {""}, flagged : {TRUE}, reason : {"r1"}]
    \cup [json : {FALSE}, transaction_id : {UnknownTxId},
          is_valid : {TRUE}, corrected_category : {""}, corrected_action : {""},
          validation_notes : {""}, flagged : {FALSE}, reason : {""}]

\* f"Validación: {validation_notes}"
ValidationNote(text) == IF text = "v1" THEN "Validacion: v1" ELSE "Validacion: "

\* the correction of an output with is_valid false
Corrected(tx, out) ==
    LET t1 == IF out.corrected_category # ""
              THEN [tx EXCEPT !.category = out.corrected_category] ELSE tx
    IN  IF out.corrected_action = "" THEN
            [tx |-> IF out.validation_notes # ""
                    THEN [t1 EXCEPT !.notes = JoinNote(OrEmpty(t1.notes),
                                            ValidationNote(out.validation_notes))]
                    ELSE t1,
             failed |-> FALSE]
        ELSE IF out.corrected_action \notin TransactionActions THEN
            [tx |-> t1, failed |-> TRUE]
        ELSE LET t2 == [t1 EXCEPT !.action = out.corrected_action]
             IN  [tx |-> IF out.validation_notes # ""
                         THEN [t2 EXCEPT !.notes = JoinNote(OrEmpty(t2.notes),
                                            ValidationNote(out.validation_notes))]
                         ELSE t2,
                  failed |-> FALSE]

\* the body of the try in _run_validation for one output: tx_map holds
\* every transaction of the batch
ApplyValidation(ts, out) ==
    IF ~out.json THEN [txs |-> ts, failed |-> TRUE]
    ELSE IF out.transaction_id \notin DOMAIN ts THEN [txs |-> ts, failed |-> FALSE]
    ELSE LET id == out.transaction_id
             c == IF ~out.is_valid THEN Corrected(ts[id], out)
                  ELSE [tx |-> ts[id], failed |-> FALSE]
         IN  IF c.failed \/ ~out.flagged
             THEN [txs |-> [ts EXCEPT ![id] = c.tx], failed |-> c.failed]
             ELSE [txs |-> [ts EXCEPT ![id] =
                              [c.tx EXCEPT !.action = REVIEW,
                                           !.notes = JoinNote(OrEmpty(c.tx.notes),
                                                              out.reason)]],
                   failed |-> FALSE]

\* to_validate of _run_validation
ToValidate(ts) == {id \in DOMAIN ts : ts[id].action = REGISTER}

\* a filter that also lets the transactions to review through
ToRegister_AndReview(ts) == {id \in DOMAIN ts : ts[id].action \in {REGISTER, REVIEW}}

\* to_register of process_transactions
ToRegister(ts) == {id \in DOMAIN ts : ts[id].action = REGISTER}

\* what one write_expenses_to_sheet call of the writer agent can do: the
\* server acknowledged, the server refused, session.call_tool raised
WriteOutcomes == {"ok", "is_error", "raised"}

\* write_expenses_to_sheet: the row reached the server and was acknowledged;
\* every other case comes back to the agent as an error text
WriteAcknowledged(session, o) == session /\ o = "ok"

\* _run_writer: the number of transactions given, 0 when Runner.run raised
RunWriter(given, raised) == IF raised THEN 0 ELSE Cardinality(given)

batchInit ==
    /\ bpc = "idle"
    /\ orch = [mcp_session |-> FALSE, enable_validation |-> FALSE]
    /\ txs = [id \in {} |-> NewTransaction]
    /\ outputs = 0
    /\ lastFailed = FALSE
    /\ submitted = {}
    /\ handed = {}
    /\ acked = {}
    /\ written = 0

(***************************************************************************)
(* get_next_row as a function of the range it is given and of what the     *)
(* remote read does.                                                       *)
(***************************************************************************)
\* the ranges get_next_row may be given: well formed, without a sheet name,
\* without a colon, without column letters, with two "!"
ToolRanges == RangesToRead
              \cup {<<"Gastos", "!", "A", "1">>,
                    <<"Gastos", "!", "1", ":", "200">>,
                    <<"Gastos", "!", "A", "1", "!", "E", "200">>}

ToolInputs == [range_to_read : ToolRanges, o : CallOutcomes]

NoToolInput == [range_to_read |-> NoRange, o |-> [kind |-> "none", rows |-> -1]]

\* nothing was returned yet
NoToolOutput == [returned |-> FALSE, success |-> FALSE, error |-> None,
                 next_row |-> 0, range_to_write |-> NoRange]

\* get_next_row: the keys of the JSON it returns
GetNextRow(range_to_read, o) ==
    LET r == GetNextRowTool(o)
    IN  [returned |-> TRUE, success |-> r.success, error |-> r.error,
         next_row |-> r.next_row,
         range_to_write |-> IF r.success
                            THEN RangeToWrite(range_to_read, r.next_row)
                            ELSE NoRange]

toolInit ==
    /\ toolInput = NoToolInput
    /\ toolOutput = NoToolOutput

(***************************************************************************)
(* MCPServerManager: the .NET server process behind run_agent_pipeline.    *)
(* server.process is the index of the held process in procs, 0 for None.   *)
(***************************************************************************)
\* server processes the pipelines may spawn
MaxSpawned == 3

\* the process runs
PROC_RUNNING == "running"

\* SIGKILL was sent and the process is not reaped yet
PROC_DYING == "dying"

\* the process has ended
PROC_EXITED == "exited"

\* a manager as __init__ leaves it
NewManager == [process |-> 0, is_running |-> FALSE]

\* what stop can meet: terminate and wait succeed; wait times out and kill
\* succeeds; wait times out after kill too; terminate or kill raises
StopOutcomes == {"terminated", "killed", "kill_wait_timeout", "signal_raised"}

\* the process after the try of stop
AfterStop(state, o) ==
    IF state = PROC_EXITED THEN PROC_EXITED
    ELSE CASE o = "terminated" -> PROC_EXITED
           [] o = "killed" -> PROC_EXITED
           [] o = "kill_wait_timeout" -> PROC_DYING
           [] OTHER -> state

\* MCPServerManager.stop: nothing without a process; otherwise terminate,
\* wait, kill, and in every case _process = None and _is_running = False
ManagerStop(mgr, ps, o) ==
    IF mgr.process = 0 THEN [server |-> mgr, procs |-> ps]
    ELSE [server |-> NewManager,
          procs |-> [ps EXCEPT ![mgr.process] = AfterStop(ps[mgr.process], o)]]

\* what Popen can do: a process is spawned (at the first or the second
\* try), dotnet is not found, another error
SpawnOutcomes == {"spawned", "not_found", "failed"}

\* what _wait_for_startup can do: the port answers, the time runs out, the
\* process ended early, it raises
WaitOutcomes == {"ready", "timeout", "ended", "raised"}

\* MCPServerManager.start: the manager, the processes, and whether
\* MCPServerError was raised
ManagerStart(mgr, ps, spawn, wait, o) ==
    IF mgr.is_running THEN [server |-> mgr, procs |-> ps, raised |-> FALSE]
    ELSE IF spawn # "spawned" THEN [server |-> mgr, procs |-> ps, raised |-> TRUE]
    ELSE LET held == [mgr EXCEPT !.process = Len(ps) + 1]
         IN  CASE wait = "ready" ->
                    [server |-> [held EXCEPT !.is_running = TRUE],
                     procs |-> Append(ps, PROC_RUNNING), raised |-> FALSE]
               [] wait = "timeout" ->
                    LET s == ManagerStop(held, Append(ps, PROC_RUNNING), o)
                    IN  [server |-> s.server, procs |-> s.procs, raised |-> TRUE]
               [] wait = "ended" ->
                    LET s == ManagerStop(held, Append(ps, PROC_EXITED), o)
                    IN  [server |-> s.server, procs |-> s.procs, raised |-> TRUE]
               [] OTHER ->
                    [server |-> held, procs |-> Append(ps, PROC_RUNNING),
                     raised |-> TRUE]

serverInit ==
    /\ pipePc = "idle"
    /\ server = NewManager
    /\ procs = <<>>

(***************************************************************************)
(* TransactionValidator: the rule list and _apply_rules.  A rule is its    *)
(* name, its priority, the transactions its condition holds for and those  *)
(* its condition raises for.                                               *)
(***************************************************************************)
\* rules a validator may hold
MaxRules == 3

\* the transactions validate may be given, by what they are
TxKinds == {"alquiler", "cajero"}

\* the rules callers may pass
RulePool ==
    {[name |-> "r_alta", priority |-> 10, holds |-> {"alquiler", "cajero"}, raises |-> {}],
     [name |-> "r_media_a", priority |-> 5, holds |-> {"alquiler"}, raises |-> {"cajero"}],
     [name |-> "r_media_b", priority |-> 5, holds |-> {"alquiler", "cajero"}, raises |-> {}],
     [name |-> "r_baja", priority |-> 0, holds |-> {"cajero"}, raises |-> {}]}

\* the rule lists a validator may be built with
InitialRules == {<<>>} \cup {<<r>> : r \in RulePool}
                \cup {<<r, q>> : r \in RulePool, q \in RulePool}

\* the sort key: lambda r: -r.priority
SortKey(r) == 0 - r.priority

RECURSIVE InsertByKey(_, _)
\* the place of r in a sorted list: after every rule whose key is not larger
InsertByKey(sorted, r) ==
    IF sorted = <<>> THEN <<r>>
    ELSE IF SortKey(Head(sorted)) <= SortKey(r)
    THEN <<Head(sorted)>> \o InsertByKey(Tail(sorted), r)
    ELSE <<r>> \o sorted

\* a list left in the order the rules were given
SortByPriority_Unsorted(seq) == seq

RECURSIVE SortByPriority(_)
\* sorted(rules, key) and rules.sort(key): stable, by ascending key
SortByPriority(seq) ==
    IF seq = <<>> THEN <<>>
    ELSE InsertByKey(SortByPriority(SubSeq(seq, 1, Len(seq) - 1)), seq[Len(seq)])

RECURSIVE ApplyRules(_, _)
\* _apply_rules: the names of the rules applied to the transaction, in the
\* order of the loop; a condition that raises is logged and the loop goes on
ApplyRules(rs, tx) ==
    IF rs = <<>> THEN <<>>
    ELSE (IF tx \notin Head(rs).raises /\ tx \in Head(rs).holds
          THEN <<Head(rs).name>> ELSE <<>>)
         \o ApplyRules(Tail(rs), tx)

\* no _apply_rules has run
NoApplied == [tx |-> "none", order |-> <<>>]

validatorInit ==
    /\ rules = <<>>
    /\ applied = NoApplied

IdleCaller == [op |-> "none", pc |-> "idle", read |-> NoRange, row |-> 0,
               range |-> NoRange, supplied |-> {}, result |-> "none",
               wrote |-> FALSE, overwrote |-> FALSE]

callerInit ==
    /\ serverMode = "up"
    /\ sheet = <<0>>
    /\ callers = [p \in Callers |-> IdleCaller]

sessInit ==
    /\ mgrClient = FALSE
    /\ clientSession = None
    /\ clientTools = {}
    /\ clientConnected = FALSE
    /\ connPc = "idle"
    /\ attempt = 0
    /\ connectResult = None
    /\ lastCall = [api |-> "none", name |-> "none", args |-> "none",
                   wasConnected |-> FALSE, kind |-> "none", connects |-> 0,
                   result |-> NoResult]
    /\ lastStartup = [kind |-> "none", raised |-> FALSE, returned |-> None]
    /\ slept = <<>>

wfInit ==
    /\ pc = "idle"
    /\ turns = 0
    /\ pending = <<>>
    /\ catRequested = 0
    /\ catDispatched = 0
    /\ saveDispatched = FALSE
    /\ writeAcked = FALSE
    /\ innerCalls = 0
    /\ runnerRuns = 0
    /\ runOutcome = "none"
    /\ finalOutput = NoOutput
    /\ response = NoResponse
    /\ lastTool = NoTool

Init ==
    /\ wfInit /\ sessInit /\ callerInit
    /\ batchInit /\ toolInit /\ serverInit /\ validatorInit

\* create_expense_orchestrator raises RuntimeError: a provider has no model
\* (API key missing); the call is outside the try
CreateOrchestratorFails ==
    /\ pc = "idle"
    /\ pc' = "raised"
    /\ runOutcome' = "not_started"
    /\ UNCHANGED <<turns, pending, catRequested, catDispatched, saveDispatched,
                   writeAcked, innerCalls, runnerRuns, finalOutput, response, lastTool>>
    /\ UNCHANGED sessVars
    /\ UNCHANGED callerVars
    /\ UNCHANGED <<batchVars, toolVars, serverVars, validatorVars>>

\* the orchestrator is built and Runner.run is entered
StartRunner ==
    /\ pc = "idle"
    /\ pc' = "awaiting_model"
    /\ runnerRuns' = runnerRuns + 1
    /\ UNCHANGED <<turns, pending, catRequested, catDispatched, saveDispatched,
                   writeAcked, innerCalls, runOutcome, finalOutput, response, lastTool>>
    /\ UNCHANGED sessVars
    /\ UNCHANGED callerVars
    /\ UNCHANGED <<batchVars, toolVars, serverVars, validatorVars>>

\* the run loop raises MaxTurnsExceeded; the except branch answers
RunnerMaxTurns ==
    /\ pc = "awaiting_model"
    /\ TurnLimitExceeded(turns)
    /\ runOutcome' = "max_turns"
    /\ response' = ExceptionResponse(E_MAX_TURNS)
    /\ pc' = "returned"
    /\ UNCHANGED <<turns, pending, catRequested, catDispatched, saveDispatched,
                   writeAcked, innerCalls, runnerRuns, finalOutput, lastTool>>
    /\ UNCHANGED sessVars
    /\ UNCHANGED callerVars
    /\ UNCHANGED <<batchVars, toolVars, serverVars, validatorVars>>

\* a failed model call after which the run is submitted again
ModelCallFails_Resubmits ==
    /\ pc = "awaiting_model"
    /\ runnerRuns < 3
    /\ turns' = 0
    /\ runnerRuns' = runnerRuns + 1
    /\ UNCHANGED <<pc, pending, catRequested, catDispatched, saveDispatched,
                   writeAcked, innerCalls, runOutcome, finalOutput, response, lastTool>>
    /\ UNCHANGED sessVars
    /\ UNCHANGED callerVars
    /\ UNCHANGED <<batchVars, toolVars, serverVars, validatorVars>>

\* the model call fails; the exception leaves Runner.run; the except branch answers
ModelCallFails ==
    /\ pc = "awaiting_model"
    /\ ~TurnLimitExceeded(turns)
    /\ turns' = turns + 1
    /\ runOutcome' = "model_failed"
    /\ response' = ExceptionResponse(E_MODEL_BACKEND)
    /\ pc' = "returned"
    /\ UNCHANGED <<pending, catRequested, catDispatched, saveDispatched,
                   writeAcked, innerCalls, runnerRuns, finalOutput, lastTool>>
    /\ UNCHANGED sessVars
    /\ UNCHANGED callerVars
    /\ UNCHANGED <<batchVars, toolVars, serverVars, validatorVars>>

\* the model gives its final output; Runner.run returns; the result is mapped
ModelReturnsFinal ==
    /\ pc = "awaiting_model"
    /\ ~TurnLimitExceeded(turns)
    /\ \E out \in OrchestratorResults \cup {NoOutput} :
          /\ finalOutput' = out
          /\ response' = MapOrchestratorResult(out)
    /\ turns' = turns + 1
    /\ runOutcome' = "final"
    /\ pc' = "returned"
    /\ UNCHANGED <<pending, catRequested, catDispatched, saveDispatched,
                   writeAcked, innerCalls, runnerRuns, lastTool>>
    /\ UNCHANGED sessVars
    /\ UNCHANGED callerVars
    /\ UNCHANGED <<batchVars, toolVars, serverVars, validatorVars>>

\* the model requests tool calls
ModelRequestsTools ==
    /\ pc = "awaiting_model"
    /\ ~TurnLimitExceeded(turns)
    /\ \E calls \in ToolRequests :
          /\ catRequested + Count(calls, TOOL_CATEGORIZE_EXPENSE) <= MaxCatRequests
          /\ pending' = calls
          /\ catRequested' = catRequested + Count(calls, TOOL_CATEGORIZE_EXPENSE)
    /\ turns' = turns + 1
    /\ pc' = "dispatching"
    /\ UNCHANGED <<catDispatched, saveDispatched, writeAcked, innerCalls,
                   runnerRuns, runOutcome, finalOutput, response, lastTool>>
    /\ UNCHANGED sessVars
    /\ UNCHANGED callerVars
    /\ UNCHANGED <<batchVars, toolVars, serverVars, validatorVars>>

\* categorize_expense is run
DispatchCategorize ==
    /\ pc = "dispatching"
    /\ pending # <<>>
    /\ Head(pending) = TOOL_CATEGORIZE_EXPENSE
    /\ catDispatched' = catDispatched + 1
    /\ pending' = Tail(pending)
    /\ pc' = AfterDispatch(Tail(pending))
    /\ UNCHANGED <<turns, catRequested, saveDispatched, writeAcked, innerCalls,
                   runnerRuns, runOutcome, finalOutput, response, lastTool>>
    /\ UNCHANGED sessVars
    /\ UNCHANGED callerVars
    /\ UNCHANGED <<batchVars, toolVars, serverVars, validatorVars>>

\* validate_categorization is run
DispatchValidate ==
    /\ pc = "dispatching"
    /\ pending # <<>>
    /\ Head(pending) = TOOL_VALIDATE_CATEGORIZATION
    /\ pending' = Tail(pending)
    /\ pc' = AfterDispatch(Tail(pending))
    /\ UNCHANGED <<turns, catRequested, catDispatched, saveDispatched, writeAcked,
                   innerCalls, runnerRuns, runOutcome, finalOutput, response, lastTool>>
    /\ UNCHANGED sessVars
    /\ UNCHANGED callerVars
    /\ UNCHANGED <<batchVars, toolVars, serverVars, validatorVars>>

\* save_expense is run: the persistence agent takes over
DispatchSaveExpense ==
    /\ pc = "dispatching"
    /\ pending # <<>>
    /\ Head(pending) = TOOL_SAVE_EXPENSE
    /\ saveDispatched' = TRUE
    /\ innerCalls' = 0
    /\ pending' = Tail(pending)
    /\ pc' = "persisting"
    /\ UNCHANGED <<turns, catRequested, catDispatched, writeAcked,
                   runnerRuns, runOutcome, finalOutput, response, lastTool>>
    /\ UNCHANGED sessVars
    /\ UNCHANGED callerVars
    /\ UNCHANGED <<batchVars, toolVars, serverVars, validatorVars>>

\* the persistence agent calls one of its function tools
PersistToolCall ==
    /\ pc = "persisting"
    /\ innerCalls < MaxInnerCalls
    /\ \E tool \in PERSISTENCE_TOOLS, o \in CallOutcomes :
          /\ lastTool' = [tool |-> tool, kind |-> o.kind, call |-> ManagerCallTool(o),
                          result |-> RunTool(tool, o)]
          /\ writeAcked' = (writeAcked \/ ServerAcked(tool, o))
    /\ innerCalls' = innerCalls + 1
    /\ UNCHANGED <<pc, turns, pending, catRequested, catDispatched, saveDispatched,
                   runnerRuns, runOutcome, finalOutput, response>>
    /\ UNCHANGED sessVars
    /\ UNCHANGED callerVars
    /\ UNCHANGED <<batchVars, toolVars, serverVars, validatorVars>>

\* the persistence agent answers; the run loop goes on
PersistFinish ==
    /\ pc = "persisting"
    /\ pc' = AfterDispatch(pending)
    /\ lastTool' = NoTool
    /\ UNCHANGED <<turns, pending, catRequested, catDispatched, saveDispatched,
                   writeAcked, innerCalls, runnerRuns, runOutcome, finalOutput, response>>
    /\ UNCHANGED sessVars
    /\ UNCHANGED callerVars
    /\ UNCHANGED <<batchVars, toolVars, serverVars, validatorVars>>

Next ==
    \/ CreateOrchestratorFails
    \/ StartRunner
    \/ RunnerMaxTurns
    \/ ModelCallFails
    \/ ModelReturnsFinal
    \/ ModelRequestsTools
    \/ DispatchCategorize
    \/ DispatchValidate
    \/ DispatchSaveExpense
    \/ PersistToolCall
    \/ PersistFinish

Spec == Init /\ [][Next]_vars

(***************************************************************************)
(* The MCP client session: MCPClient behind MCPClientManager._client.      *)
(* MCPClient.connect runs step by step, so that other callers can act      *)
(* while it awaits.                                                        *)
(***************************************************************************)
\* the tool names a caller may ask for
CallNames == {TOOL_WRITE_RANGE, TOOL_GET_RANGES, "add_expense"}

\* the tool tables list_tools may return
DiscoveredTools == {{}, {TOOL_GET_RANGES}, {TOOL_GET_RANGES, TOOL_WRITE_RANGE}}

\* what the server has to offer
ServerTools == {TOOL_GET_RANGES, TOOL_WRITE_RANGE}

\* a session whose async with block was left is closed; the field keeps the object
Closed(session) == IF session = None THEN None ELSE "closed"

\* MCPClientManager.is_connected
ManagerIsConnected == mgrClient /\ IsConnected(clientConnected, clientSession)

\* the arguments of a call: every field the tool schema requires is there
ARGS_COMPLETE == "complete"

\* the arguments of a call: a field the tool schema requires is missing
ARGS_MISSING_REQUIRED == "missing_required"

\* the arguments dict a caller may pass
CallArguments == {ARGS_COMPLETE, ARGS_MISSING_REQUIRED}

CallRecord(api, name, args, wasConnected, kind, result) ==
    [api |-> api, name |-> name, args |-> args, wasConnected |-> wasConnected,
     kind |-> kind, connects |-> result.connects, result |-> result]

\* what a request on the held session can do: a closed session only raises
ClientOutcomes(session) ==
    IF session = "open"
    THEN {o \in CallOutcomes : o.kind \notin NotSentKinds}
    ELSE {o \in CallOutcomes : o.kind = K_CALL_ERROR}

\* what a request for this name can do: the server refuses a name it does not offer
ManagerOutcomes(name) ==
    IF name \in ServerTools
    THEN CallOutcomes
    ELSE {o \in CallOutcomes : o.kind \in {K_CONNECT_ERROR, K_INIT_ERROR, K_CALL_ERROR, K_SERVER_ERROR}}

\* the fields MCPClient.disconnect leaves: reset only when a session is held
Disconnect(session, tools, connected) ==
    IF session # None
    THEN [session |-> None, tools |-> {}, connected |-> FALSE]
    ELSE [session |-> session, tools |-> tools, connected |-> connected]

\* session.initialize did not answer within settings.mcp.connection_timeout
K_TIMEOUT == "timeout"

\* what the handshake of _try_connect can do
StartupOutcomes == {"ok", K_CONNECT_ERROR, K_INIT_ERROR, K_TIMEOUT}

\* the statements inside the try of _try_connect
TryConnectBody(kind) ==
    IF kind = "ok"
    THEN [raised |-> FALSE, returned |-> "True"]
    ELSE [raised |-> TRUE, returned |-> None]

\* MCPClientManager._try_connect: TimeoutError and every Exception give False
TryConnect(kind) ==
    LET b == TryConnectBody(kind)
    IN  IF b.raised THEN [raised |-> FALSE, returned |-> "False"] ELSE b

\* a startup that lets the exception of the handshake through
StartupResult_Uncaught(kind) == TryConnectBody(kind)

\* MCPClientManager.startup: what _try_connect returned; an exception gives False
StartupResult(kind) ==
    LET c == TryConnect(kind)
    IN  IF c.raised THEN [raised |-> FALSE, returned |-> "False"] ELSE c

\* lifespan has reached its yield: startup returned and shutdown has not run
Serving == mgrClient /\ lastStartup.kind # "none" /\ ~lastStartup.raised

\* mcp_connected as /health reports it
HealthMcpConnected == ManagerIsConnected

\* MCPClient.connect is entered
ConnectStart ==
    /\ mgrClient
    /\ connPc = "idle"
    /\ connPc' = "open"
    /\ attempt' = 0
    /\ connectResult' = None
    /\ slept' = <<>>
    /\ UNCHANGED <<mgrClient, clientSession, clientTools, clientConnected, lastCall>>
    /\ UNCHANGED lastStartup
    /\ UNCHANGED wfVars
    /\ UNCHANGED callerVars
    /\ UNCHANGED <<batchVars, toolVars, serverVars, validatorVars>>

\* asyncio.sleep(settings.mcp.retry_delay) after the failed attempt with
\* this loop index: the delay slept
RetrySleep(index) == retry_delay

\* a failed attempt after which the loop runs once more than retry_attempts
ConnectAttemptFailed_OneMore ==
    IF attempt < retry_attempts
    THEN /\ attempt' = attempt + 1
         /\ connPc' = "open"
         /\ slept' = Append(slept, RetrySleep(attempt))
         /\ UNCHANGED <<clientConnected, connectResult>>
    ELSE /\ clientConnected' = FALSE
         /\ connectResult' = "False"
         /\ connPc' = "idle"
         /\ UNCHANGED <<attempt, slept>>

\* an attempt of MCPClient.connect raised: sleep and try again, or give up
ConnectAttemptFailed ==
    IF attempt < retry_attempts - 1
    THEN /\ attempt' = attempt + 1
         /\ connPc' = "open"
         /\ slept' = Append(slept, RetrySleep(attempt))
         /\ UNCHANGED <<clientConnected, connectResult>>
    ELSE /\ clientConnected' = FALSE
         /\ connectResult' = "False"
         /\ connPc' = "idle"
         /\ UNCHANGED <<attempt, slept>>

\* sse_client and ClientSession are entered; self._session = session
ConnectOpen ==
    /\ connPc = "open"
    /\ \E ok \in BOOLEAN :
          IF ok
          THEN /\ clientSession' = "open"
               /\ connPc' = "initialize"
               /\ UNCHANGED <<attempt, clientConnected, connectResult, slept>>
          ELSE /\ ConnectAttemptFailed
               /\ UNCHANGED clientSession
    /\ UNCHANGED <<mgrClient, clientTools, lastCall>>
    /\ UNCHANGED lastStartup
    /\ UNCHANGED wfVars
    /\ UNCHANGED callerVars
    /\ UNCHANGED <<batchVars, toolVars, serverVars, validatorVars>>

\* session.initialize
ConnectInitialize ==
    /\ connPc = "initialize"
    /\ \E ok \in BOOLEAN :
          IF ok
          THEN /\ connPc' = "list_tools"
               /\ UNCHANGED <<attempt, clientSession, clientConnected, connectResult, slept>>
          ELSE /\ ConnectAttemptFailed
               /\ clientSession' = Closed(clientSession)
    /\ UNCHANGED <<mgrClient, clientTools, lastCall>>
    /\ UNCHANGED lastStartup
    /\ UNCHANGED wfVars
    /\ UNCHANGED callerVars
    /\ UNCHANGED <<batchVars, toolVars, serverVars, validatorVars>>

\* session.list_tools, the tool table, _connected = True, return True:
\* the return leaves both async with blocks
ConnectListTools ==
    /\ connPc = "list_tools"
    /\ \E ok \in BOOLEAN, tools \in DiscoveredTools :
          IF ok
          THEN /\ clientTools' = tools
               /\ clientConnected' = TRUE
               /\ connectResult' = "True"
               /\ connPc' = "idle"
               /\ UNCHANGED <<attempt, slept>>
          ELSE /\ ConnectAttemptFailed
               /\ UNCHANGED clientTools
    /\ clientSession' = Closed(clientSession)
    /\ UNCHANGED <<mgrClient, lastCall>>
    /\ UNCHANGED lastStartup
    /\ UNCHANGED wfVars
    /\ UNCHANGED callerVars
    /\ UNCHANGED <<batchVars, toolVars, serverVars, validatorVars>>

\* MCPClient.call_tool
ClientCall ==
    /\ mgrClient
    /\ \E name \in CallNames, args \in CallArguments, o \in ClientOutcomes(clientSession) :
          LET r == ClientCallTool(clientConnected, clientSession, clientTools, name, o)
          IN  lastCall' = CallRecord("client", name, args,
                                     IsConnected(clientConnected, clientSession),
                                     IF r.sent = 0 THEN "not_sent" ELSE o.kind, r)
    /\ UNCHANGED <<mgrClient, clientSession, clientTools, clientConnected,
                   connPc, attempt, connectResult>>
    /\ UNCHANGED <<lastStartup, slept>>
    /\ UNCHANGED wfVars
    /\ UNCHANGED callerVars
    /\ UNCHANGED <<batchVars, toolVars, serverVars, validatorVars>>

\* MCPClient.disconnect
ClientDisconnect ==
    /\ mgrClient
    /\ LET d == Disconnect(clientSession, clientTools, clientConnected)
       IN  /\ clientSession' = d.session
           /\ clientTools' = d.tools
           /\ clientConnected' = d.connected
    /\ UNCHANGED <<mgrClient, connPc, attempt, connectResult, lastCall>>
    /\ UNCHANGED <<lastStartup, slept>>
    /\ UNCHANGED wfVars
    /\ UNCHANGED callerVars
    /\ UNCHANGED <<batchVars, toolVars, serverVars, validatorVars>>

\* MCPClientManager.startup: a new MCPClient, then _try_connect
ManagerStartup ==
    /\ connPc = "idle"
    /\ mgrClient' = TRUE
    /\ clientSession' = None
    /\ clientTools' = {}
    /\ clientConnected' = FALSE
    /\ connectResult' = None
    /\ \E kind \in StartupOutcomes :
          lastStartup' = [kind |-> kind, raised |-> StartupResult(kind).raised,
                          returned |-> StartupResult(kind).returned]
    /\ UNCHANGED <<connPc, attempt, lastCall, slept>>
    /\ UNCHANGED wfVars
    /\ UNCHANGED callerVars
    /\ UNCHANGED <<batchVars, toolVars, serverVars, validatorVars>>

\* MCPClientManager.call_tool
ManagerCall ==
    /\ \E name \in CallNames, args \in CallArguments :
          \E o \in ManagerOutcomes(name) :
             lastCall' = CallRecord("manager", name, args, ManagerIsConnected,
                                    o.kind, ManagerCallTool(o))
    /\ UNCHANGED <<mgrClient, clientSession, clientTools, clientConnected,
                   connPc, attempt, connectResult>>
    /\ UNCHANGED <<lastStartup, slept>>
    /\ UNCHANGED wfVars
    /\ UNCHANGED callerVars
    /\ UNCHANGED <<batchVars, toolVars, serverVars, validatorVars>>

\* MCPClientManager.shutdown
ManagerShutdown ==
    /\ connPc = "idle"
    /\ mgrClient' = FALSE
    /\ clientSession' = None
    /\ clientTools' = {}
    /\ clientConnected' = FALSE
    /\ UNCHANGED <<connPc, attempt, connectResult, lastCall>>
    /\ UNCHANGED <<lastStartup, slept>>
    /\ UNCHANGED wfVars
    /\ UNCHANGED callerVars
    /\ UNCHANGED <<batchVars, toolVars, serverVars, validatorVars>>

SessionNext ==
    \/ ConnectStart
    \/ ConnectOpen
    \/ ConnectInitialize
    \/ ConnectListTools
    \/ ClientCall
    \/ ClientDisconnect
    \/ ManagerStartup
    \/ ManagerCall
    \/ ManagerShutdown

SessionSpec == Init /\ [][SessionNext]_vars

(***************************************************************************)
(* The coroutines.  Every remote operation of MCPClientManager opens its   *)
(* own connection: sse_client and ClientSession, initialize, the request.  *)
(***************************************************************************)
\* the operation of the caller is over
CallFinished(c, result) == [c EXCEPT !.pc = "done", !.result = result]

\* what the operation gives its caller when the connection or the request
\* raised: the function tools answer success = false, get_available_tools
\* the empty list, _try_connect False
FailedResult(op, kind) ==
    IF op \in PERSISTENCE_TOOLS /\ RunTool(op, [kind |-> kind, rows |-> -1]).success
    THEN "ok"
    ELSE "error"

\* a workflow reaches its persistence step: the agent calls get_next_row
StartWorkflow(p) ==
    /\ callers[p].pc = "idle"
    /\ \E r \in RangesToRead :
          callers' = [callers EXCEPT ![p] = [@ EXCEPT !.op = TOOL_GET_NEXT_ROW,
                                                      !.pc = "opening", !.read = r]]
    /\ UNCHANGED <<serverMode, sheet>>
    /\ UNCHANGED wfVars
    /\ UNCHANGED sessVars
    /\ UNCHANGED <<batchVars, toolVars, serverVars, validatorVars>>

\* MCPClientManager.get_available_tools is entered
StartGetAvailableTools(p) ==
    /\ callers[p].pc = "idle"
    /\ callers' = [callers EXCEPT ![p] = [@ EXCEPT !.op = OP_GET_AVAILABLE_TOOLS,
                                                    !.pc = "opening"]]
    /\ UNCHANGED <<serverMode, sheet>>
    /\ UNCHANGED wfVars
    /\ UNCHANGED sessVars
    /\ UNCHANGED <<batchVars, toolVars, serverVars, validatorVars>>

\* MCPClientManager._try_connect is entered
StartTryConnect(p) ==
    /\ callers[p].pc = "idle"
    /\ callers' = [callers EXCEPT ![p] = [@ EXCEPT !.op = OP_TRY_CONNECT,
                                                    !.pc = "opening"]]
    /\ UNCHANGED <<serverMode, sheet>>
    /\ UNCHANGED wfVars
    /\ UNCHANGED sessVars
    /\ UNCHANGED <<batchVars, toolVars, serverVars, validatorVars>>

\* async with sse_client(...), async with ClientSession(...)
CallOpen(p) ==
    /\ callers[p].pc = "opening"
    /\ callers' = [callers EXCEPT ![p] =
          IF serverMode = "down"
          THEN CallFinished(@, FailedResult(@.op, K_CONNECT_ERROR))
          ELSE [@ EXCEPT !.pc = "initializing"]]
    /\ UNCHANGED <<serverMode, sheet>>
    /\ UNCHANGED wfVars
    /\ UNCHANGED sessVars
    /\ UNCHANGED <<batchVars, toolVars, serverVars, validatorVars>>

\* await session.initialize() is answered or raises
CallInitialize(p) ==
    /\ callers[p].pc = "initializing"
    /\ serverMode # "silent"
    /\ callers' = [callers EXCEPT ![p] =
          IF serverMode = "down" THEN CallFinished(@, FailedResult(@.op, K_INIT_ERROR))
          ELSE IF @.op = OP_TRY_CONNECT THEN CallFinished(@, "ok")
          ELSE [@ EXCEPT !.pc = "calling"]]
    /\ UNCHANGED <<serverMode, sheet>>
    /\ UNCHANGED wfVars
    /\ UNCHANGED sessVars
    /\ UNCHANGED <<batchVars, toolVars, serverVars, validatorVars>>

\* asyncio.wait_for(session.initialize(), timeout=connection_timeout) of
\* _try_connect gives up
CallTimeout(p) ==
    /\ callers[p].pc = "initializing"
    /\ callers[p].op = OP_TRY_CONNECT
    /\ serverMode = "silent"
    /\ callers' = [callers EXCEPT ![p] = CallFinished(@, FailedResult(@.op, K_TIMEOUT))]
    /\ UNCHANGED <<serverMode, sheet>>
    /\ UNCHANGED wfVars
    /\ UNCHANGED sessVars
    /\ UNCHANGED <<batchVars, toolVars, serverVars, validatorVars>>

\* get_next_row got the rows: the next row is counted, the range is built,
\* and the agent goes on to write_range with that range
NextRowCounted(c, rows) ==
    LET t == GetNextRowTool([kind |-> K_JSON_OBJECT, rows |-> Len(rows)])
    IN  IF t.success
        THEN [c EXCEPT !.op = TOOL_WRITE_RANGE, !.pc = "opening",
                       !.row = t.next_row,
                       !.range = RangeToWrite(c.read, t.next_row),
                       !.supplied = {c.read}]
        ELSE CallFinished(c, "error")

\* write_range was answered: the server wrote the row the range names
RangeWritten(c, rows) ==
    [CallFinished(c, "ok") EXCEPT !.wrote = TRUE,
                                  !.overwrote = RowOf(c.range) <= Len(rows)]

\* await session.call_tool(...) / session.list_tools() is answered or raises
CallReply(p) ==
    /\ callers[p].pc = "calling"
    /\ serverMode # "silent"
    /\ callers' = [callers EXCEPT ![p] =
          IF serverMode = "down" THEN CallFinished(@, FailedResult(@.op, K_CALL_ERROR))
          ELSE IF @.op = TOOL_GET_NEXT_ROW THEN NextRowCounted(@, sheet)
          ELSE IF @.op = TOOL_WRITE_RANGE THEN RangeWritten(@, sheet)
          ELSE CallFinished(@, "ok")]
    /\ sheet' = IF serverMode = "up" /\ callers[p].op = TOOL_WRITE_RANGE
                THEN WriteRow(sheet, RowOf(callers[p].range), p)
                ELSE sheet
    /\ UNCHANGED serverMode
    /\ UNCHANGED wfVars
    /\ UNCHANGED sessVars
    /\ UNCHANGED <<batchVars, toolVars, serverVars, validatorVars>>

\* the tool server goes down, comes up or stops answering
ServerChanges ==
    /\ \E m \in ServerModes \ {serverMode} : serverMode' = m
    /\ UNCHANGED <<sheet, callers>>
    /\ UNCHANGED wfVars
    /\ UNCHANGED sessVars
    /\ UNCHANGED <<batchVars, toolVars, serverVars, validatorVars>>

\* a step of caller p
CallerStep(p) ==
    \/ StartWorkflow(p)
    \/ StartGetAvailableTools(p)
    \/ StartTryConnect(p)
    \/ CallOpen(p)
    \/ CallInitialize(p)
    \/ CallTimeout(p)
    \/ CallReply(p)

CallersNext ==
    \/ \E p \in Callers : CallerStep(p)
    \/ ServerChanges

CallersSpec == Init /\ [][CallersNext]_vars

(***************************************************************************)
(* process_transactions, step by step: the categorization run and its      *)
(* outputs, the validation run and its outputs, the filter, the writer.    *)
(***************************************************************************)
\* process_transactions is entered; an empty list returns at once.  The
\* orchestrator was built with or without validation, and setup_mcp_tools
\* was called or not
ProcessTransactions ==
    /\ bpc = "idle"
    /\ \E batch \in SUBSET TxIds, session \in BOOLEAN, validation \in BOOLEAN :
          /\ orch' = [mcp_session |-> session, enable_validation |-> validation]
          /\ txs' = [id \in batch |-> NewTransaction]
          /\ bpc' = IF batch = {} THEN "returned" ELSE "categorize"
    /\ outputs' = 0
    /\ lastFailed' = FALSE
    /\ submitted' = {}
    /\ handed' = {}
    /\ acked' = {}
    /\ written' = 0
    /\ UNCHANGED wfVars
    /\ UNCHANGED sessVars
    /\ UNCHANGED callerVars
    /\ UNCHANGED <<toolVars, serverVars, validatorVars>>

\* _run_categorization: Runner.run returned or raised
RunCategorization ==
    /\ bpc = "categorize"
    /\ \E raised \in BOOLEAN :
          bpc' = IF raised THEN "raised" ELSE "categorizing"
    /\ outputs' = 0
    /\ UNCHANGED <<orch, txs, lastFailed, submitted, handed, acked, written>>
    /\ UNCHANGED wfVars
    /\ UNCHANGED sessVars
    /\ UNCHANGED callerVars
    /\ UNCHANGED <<toolVars, serverVars, validatorVars>>

\* _run_categorization: one function_call_output item of the loop
CategorizationOutput ==
    /\ bpc = "categorizing"
    /\ outputs < MaxOutputs
    /\ \E out \in CategorizationOutputs :
          LET a == ApplyCategorization(txs, out)
          IN  /\ txs' = a.txs
              /\ lastFailed' = a.failed
    /\ outputs' = outputs + 1
    /\ UNCHANGED <<bpc, orch, submitted, handed, acked, written>>
    /\ UNCHANGED wfVars
    /\ UNCHANGED sessVars
    /\ UNCHANGED callerVars
    /\ UNCHANGED <<toolVars, serverVars, validatorVars>>

\* _run_categorization returns; the validation step is entered when enabled
CategorizationReturns ==
    /\ bpc = "categorizing"
    /\ bpc' = IF orch.enable_validation THEN "validate" ELSE "filter"
    /\ UNCHANGED <<orch, txs, outputs, lastFailed, submitted, handed, acked, written>>
    /\ UNCHANGED wfVars
    /\ UNCHANGED sessVars
    /\ UNCHANGED callerVars
    /\ UNCHANGED <<toolVars, serverVars, validatorVars>>

\* _run_validation: nothing to validate, or Runner.run returned or raised
RunValidation ==
    /\ bpc = "validate"
    /\ IF ToValidate(txs) = {}
       THEN /\ bpc' = "filter"
            /\ UNCHANGED submitted
       ELSE /\ submitted' = ToValidate(txs)
            /\ \E raised \in BOOLEAN :
                  bpc' = IF raised THEN "raised" ELSE "validating"
    /\ outputs' = 0
    /\ UNCHANGED <<orch, txs, lastFailed, handed, acked, written>>
    /\ UNCHANGED wfVars
    /\ UNCHANGED sessVars
    /\ UNCHANGED callerVars
    /\ UNCHANGED <<toolVars, serverVars, validatorVars>>

\* _run_validation: one function_call_output item of the loop
ValidationOutput ==
    /\ bpc = "validating"
    /\ outputs < MaxOutputs
    /\ \E out \in ValidationOutputs :
          LET a == ApplyValidation(txs, out)
          IN  /\ txs' = a.txs
              /\ lastFailed' = a.failed
    /\ outputs' = outputs + 1
    /\ UNCHANGED <<bpc, orch, submitted, handed, acked, written>>
    /\ UNCHANGED wfVars
    /\ UNCHANGED sessVars
    /\ UNCHANGED callerVars
    /\ UNCHANGED <<toolVars, serverVars, validatorVars>>

\* _run_validation returns
ValidationReturns ==
    /\ bpc = "validating"
    /\ bpc' = "filter"
    /\ UNCHANGED <<orch, txs, outputs, lastFailed, submitted, handed, acked, written>>
    /\ UNCHANGED wfVars
    /\ UNCHANGED sessVars
    /\ UNCHANGED callerVars
    /\ UNCHANGED <<toolVars, serverVars, validatorVars>>

\* the filter by action; the writer step is entered when there is something
\* to register and a session, otherwise the results are returned
FilterByAction ==
    /\ bpc = "filter"
    /\ IF ToRegister(txs) # {} /\ orch.mcp_session
       THEN /\ handed' = ToRegister(txs)
            /\ bpc' = "writing"
       ELSE /\ bpc' = "returned"
            /\ UNCHANGED handed
    /\ outputs' = 0
    /\ UNCHANGED <<orch, txs, lastFailed, submitted, acked, written>>
    /\ UNCHANGED wfVars
    /\ UNCHANGED sessVars
    /\ UNCHANGED callerVars
    /\ UNCHANGED <<toolVars, serverVars, validatorVars>>

\* the writer agent calls write_expenses_to_sheet with rows of its prompt
WriterWrites ==
    /\ bpc = "writing"
    /\ outputs < MaxOutputs
    /\ \E rows \in SUBSET handed \ {{}}, o \in WriteOutcomes :
          acked' = IF WriteAcknowledged(orch.mcp_session, o)
                   THEN acked \cup rows ELSE acked
    /\ outputs' = outputs + 1
    /\ UNCHANGED <<bpc, orch, txs, lastFailed, submitted, handed, written>>
    /\ UNCHANGED wfVars
    /\ UNCHANGED sessVars
    /\ UNCHANGED callerVars
    /\ UNCHANGED <<toolVars, serverVars, validatorVars>>

\* Runner.run of the writer agent ended; results["written"] is set and
\* process_transactions returns
WriterReturns ==
    /\ bpc = "writing"
    /\ \E raised \in BOOLEAN :
          written' = RunWriter(handed, raised)
    /\ bpc' = "returned"
    /\ UNCHANGED <<orch, txs, outputs, lastFailed, submitted, handed, acked>>
    /\ UNCHANGED wfVars
    /\ UNCHANGED sessVars
    /\ UNCHANGED callerVars
    /\ UNCHANGED <<toolVars, serverVars, validatorVars>>

BatchNext ==
    \/ ProcessTransactions
    \/ RunCategorization
    \/ CategorizationOutput
    \/ CategorizationReturns
    \/ RunValidation
    \/ ValidationOutput
    \/ ValidationReturns
    \/ FilterByAction
    \/ WriterWrites
    \/ WriterReturns

BatchSpec == Init /\ [][BatchNext]_vars

(***************************************************************************)
(* One call of get_next_row on an input drawn at the start.                *)
(***************************************************************************)
ToolInit ==
    /\ wfInit /\ sessInit /\ callerInit /\ batchInit /\ serverInit /\ validatorInit
    /\ toolInput \in ToolInputs
    /\ toolOutput = NoToolOutput

\* get_next_row(range_to_read) runs and returns its JSON
GetNextRowCall ==
    /\ ~toolOutput.returned
    /\ toolOutput' = GetNextRow(toolInput.range_to_read, toolInput.o)
    /\ UNCHANGED toolInput
    /\ UNCHANGED wfVars
    /\ UNCHANGED sessVars
    /\ UNCHANGED callerVars
    /\ UNCHANGED <<batchVars, serverVars, validatorVars>>

ToolNext == GetNextRowCall

ToolSpec == ToolInit /\ [][ToolNext]_vars

(***************************************************************************)
(* run_agent_pipeline around MCPServerManager: a new manager, start inside *)
(* the try, the work, stop in the finally.  A process can end by itself.   *)
(***************************************************************************)
\* server = MCPServerManager(...)
PipelineBegin ==
    /\ pipePc \in {"idle", "exited"}
    /\ Len(procs) < MaxSpawned
    /\ server' = NewManager
    /\ pipePc' = "start"
    /\ UNCHANGED procs
    /\ UNCHANGED wfVars
    /\ UNCHANGED sessVars
    /\ UNCHANGED callerVars
    /\ UNCHANGED <<batchVars, toolVars, validatorVars>>

\* server.start() inside the try
PipelineStartServer ==
    /\ pipePc = "start"
    /\ \E spawn \in SpawnOutcomes, wait \in WaitOutcomes, o \in StopOutcomes :
          LET s == ManagerStart(server, procs, spawn, wait, o)
          IN  /\ server' = s.server
              /\ procs' = s.procs
              /\ pipePc' = IF s.raised THEN "finally" ELSE "working"
    /\ UNCHANGED wfVars
    /\ UNCHANGED sessVars
    /\ UNCHANGED callerVars
    /\ UNCHANGED <<batchVars, toolVars, validatorVars>>

\* the session and process_transactions: they return or raise
PipelineWork ==
    /\ pipePc = "working"
    /\ pipePc' = "finally"
    /\ UNCHANGED <<server, procs>>
    /\ UNCHANGED wfVars
    /\ UNCHANGED sessVars
    /\ UNCHANGED callerVars
    /\ UNCHANGED <<batchVars, toolVars, validatorVars>>

\* finally: server.stop()
PipelineFinally ==
    /\ pipePc = "finally"
    /\ \E o \in StopOutcomes :
          LET s == ManagerStop(server, procs, o)
          IN  /\ server' = s.server
              /\ procs' = s.procs
    /\ pipePc' = "exited"
    /\ UNCHANGED wfVars
    /\ UNCHANGED sessVars
    /\ UNCHANGED callerVars
    /\ UNCHANGED <<batchVars, toolVars, validatorVars>>

\* a server process ends: by itself, or after the SIGKILL it was sent
ProcessEnds ==
    /\ \E i \in 1 .. Len(procs) :
          /\ procs[i] # PROC_EXITED
          /\ procs' = [procs EXCEPT ![i] = PROC_EXITED]
    /\ UNCHANGED <<pipePc, server>>
    /\ UNCHANGED wfVars
    /\ UNCHANGED sessVars
    /\ UNCHANGED callerVars
    /\ UNCHANGED <<batchVars, toolVars, validatorVars>>

ServerNext ==
    \/ PipelineBegin
    \/ PipelineStartServer
    \/ PipelineWork
    \/ PipelineFinally
    \/ ProcessEnds

ServerSpec == Init /\ [][ServerNext]_vars

(***************************************************************************)
(* TransactionValidator: construction, add_rule and validate.              *)
(***************************************************************************)
\* TransactionValidator(rules=...)
NewValidator ==
    /\ \E given \in InitialRules : rules' = SortByPriority(given)
    /\ applied' = NoApplied
    /\ UNCHANGED wfVars
    /\ UNCHANGED sessVars
    /\ UNCHANGED callerVars
    /\ UNCHANGED <<batchVars, toolVars, serverVars>>

\* add_rule(rule)
AddRule ==
    /\ Len(rules) < MaxRules
    /\ \E rule \in RulePool : rules' = SortByPriority(Append(rules, rule))
    /\ UNCHANGED applied
    /\ UNCHANGED wfVars
    /\ UNCHANGED sessVars
    /\ UNCHANGED callerVars
    /\ UNCHANGED <<batchVars, toolVars, serverVars>>

\* validate([tx]): _apply_rules on the transaction
Validate ==
    /\ \E tx \in TxKinds : applied' = [tx |-> tx, order |-> ApplyRules(rules, tx)]
    /\ UNCHANGED rules
    /\ UNCHANGED wfVars
    /\ UNCHANGED sessVars
    /\ UNCHANGED callerVars
    /\ UNCHANGED <<batchVars, toolVars, serverVars>>

ValidatorNext ==
    \/ NewValidator
    \/ AddRule
    \/ Validate

ValidatorSpec == Init /\ [][ValidatorNext]_vars

(***************************************************************************)
(* Properties of the receipt workflow (Spec).                              *)
(***************************************************************************)
Terminated == pc \in {"returned", "raised"}

\* C1: categorize_expense is run at most max_correction_attempts times, and
\* a workflow in which the model asked for more ends with status
\* categorization_failed and attempts = max_correction_attempts.
C1_ClassificationBudget ==
    /\ catDispatched <= max_correction_attempts
    /\ (pc = "returned" /\ catRequested > max_correction_attempts)
          => /\ response.status = STATUS_CATEGORIZATION_FAILED
             /\ response.attempts = max_correction_attempts

\* C2: status success is returned only if save_expense was dispatched and a
\* write was acknowledged by the server during the workflow.
C2_SuccessOnlyAfterPersistence ==
    response.status = STATUS_SUCCESS => (saveDispatched /\ writeAcked)

C4_EveryPathAnswers ==
    Terminated =>
        /\ response.status \in ProcessingStatus
        /\ response.message # <<>>
        /\ response.status # STATUS_SUCCESS => response.errors # <<>>

\* steps one tool call of a round can take: the dispatch, the persistence
\* agent's tool calls and its answer
StepsPerCall == MaxInnerCalls + 2

\* steps one round can take: the model call and its tool calls
StepsPerRound == MaxCallsPerRound * StepsPerCall + 2

\* an upper bound on the steps the workflow can still take
WorkLeft ==
    CASE Terminated -> 0
      [] pc = "idle" -> (MaxTurns + 1) * StepsPerRound + 2
      [] pc = "awaiting_model" -> (MaxTurns - turns) * StepsPerRound + 1
      [] pc = "dispatching" ->
            (MaxTurns - turns) * StepsPerRound + 1 + Len(pending) * StepsPerCall
      [] OTHER ->
            (MaxTurns - turns) * StepsPerRound + 1 + Len(pending) * StepsPerCall
                + (MaxInnerCalls - innerCalls) + 1

C6_ModelFailureIsTerminal ==
    /\ runnerRuns <= 1
    /\ (\/ runOutcome \in {"model_failed", "max_turns"}
        \/ (runOutcome = "final" /\ ~finalOutput.present))
          => /\ pc = "returned"
             /\ response.status = STATUS_ERROR
             /\ response.errors # <<>>
             /\ runnerRuns = 1

\* C6 witness: the model call failed and the workflow returned
C6_ModelCallFailed ==
    pc = "returned" /\ runOutcome = "model_failed" /\ runnerRuns = 1

\* C7: a failed remote call (unreachable server, transport exception, error
\* reported by the server) raises out of neither the function tool nor
\* MCPClientManager.call_tool, and both return success = false with an error.
C7_RemoteFailureIsErrorResult ==
    (lastTool.tool # "none" /\ lastTool.kind \in FailureKinds) =>
        /\ ~lastTool.call.raised
        /\ ~lastTool.call.success
        /\ ~lastTool.result.raised
        /\ ~lastTool.result.success
        /\ lastTool.result.error # None

(***************************************************************************)
(* Properties of the MCP client session (SessionSpec).                     *)
(***************************************************************************)
CallFailed(c) == c.result.raised \/ ~c.result.success

C9_FailedCallMarksDegraded ==
    [][(/\ lastCall' # lastCall
        /\ lastCall'.api = "client"
        /\ lastCall'.kind = K_CALL_ERROR)
          => ~IsConnected(clientConnected', clientSession')]_vars

\* C10: one call_tool invocation makes at most one session.call_tool request,
\* also when the request fails.
C10_AtMostOneRequest ==
    lastCall.api # "none" => lastCall.result.sent <= 1

\* C10 witness: a request was made, failed, and was not made again
C10_FailedRequestSentOnce ==
    /\ lastCall.api = "manager"
    /\ lastCall.kind = K_CALL_ERROR
    /\ ~lastCall.result.success
    /\ lastCall.result.sent = 1

\* the awaits left in the running attempt of MCPClient.connect
ConnectPos ==
    CASE connPc = "initialize" -> 1
      [] connPc = "list_tools" -> 2
      [] OTHER -> 0

\* an upper bound on the steps a running MCPClient.connect can still take
ConnectLeft ==
    IF connPc = "idle" THEN 0 ELSE (retry_attempts - attempt) * 3 - ConnectPos

\* C12: MCPClient.connect makes at most retry_attempts attempts and ends:
\* the attempt index stays below retry_attempts, every step of a running
\* connect lowers the natural number ConnectLeft, and a connect returns False
\* only after attempt number retry_attempts, leaving is_connected false.
C12_ConnectWithinBudget ==
    /\ [](attempt \in 0 .. retry_attempts - 1 /\ ConnectLeft >= 0)
    /\ [][(connPc # "idle" /\ <<connPc, attempt>>' # <<connPc, attempt>>)
            => ConnectLeft' < ConnectLeft]_vars
    /\ [][(connPc # "idle" /\ connPc' = "idle" /\ connectResult' = "False")
            => /\ attempt = retry_attempts - 1
               /\ ~IsConnected(clientConnected', clientSession')]_vars

\* C12 witness: every attempt failed and connect returned False
C12_BudgetExhausted ==
    /\ mgrClient
    /\ connPc = "idle"
    /\ connectResult = "False"
    /\ attempt = retry_attempts - 1
    /\ ~IsConnected(clientConnected, clientSession)

\* C13: once MCPClient.connect has returned True, after fewer than
\* retry_attempts failed attempts, a call_tool of a discovered tool on the
\* connected client is made on a live connection: the request is sent and
\* does not fail in the transport.
C13_CallAfterRecoveryIsLive ==
    [][(/\ connPc = "idle"
        /\ connectResult = "True"
        /\ attempt < retry_attempts
        /\ IsConnected(clientConnected, clientSession)
        /\ lastCall' # lastCall
        /\ lastCall'.api = "client"
        /\ lastCall'.name \in clientTools)
          => /\ lastCall'.result.sent = 1
             /\ lastCall'.kind # K_CALL_ERROR]_vars

\* C14: when MCPClientManager.startup returns True, the manager is connected,
\* the tool table is populated and /health reports mcp_connected = true.
C14_StartupTrueIsReady ==
    [][(ManagerStartup /\ lastStartup'.returned = "True")
          => (HealthMcpConnected' /\ clientTools' # {})]_vars

\* C15: a startup against an unreachable server, a failing handshake or a
\* handshake that timed out returns False and does not raise; the
\* application then serves; and a manager call that cannot reach the server
\* returns success = false with an error and does not raise.
C15_StartupFailureIsNotFatal ==
    /\ lastStartup.kind \in StartupOutcomes \ {"ok"}
          => (~lastStartup.raised /\ lastStartup.returned = "False")
    /\ (mgrClient /\ lastStartup.kind \in StartupOutcomes \ {"ok"}) => Serving
    /\ (lastCall.api = "manager" /\ lastCall.kind \in NotSentKinds)
          => /\ ~lastCall.result.raised
             /\ ~lastCall.result.success
             /\ lastCall.result.error # None

\* C15 witness: the handshake timed out, the application serves, and a call
\* that could not reach the server came back as an error result
C15_StartupFailedAppServes ==
    /\ Serving
    /\ lastStartup.kind = K_TIMEOUT
    /\ lastStartup.returned = "False"
    /\ lastCall.api = "manager"
    /\ lastCall.kind = K_CONNECT_ERROR
    /\ ~lastCall.result.raised
    /\ ~lastCall.result.success

\* C19: in every state of the client, disconnect leaves it not connected
\* with an empty tool table, and a second disconnect changes nothing more.
C19_StopIsIdempotent ==
    mgrClient =>
        LET d == Disconnect(clientSession, clientTools, clientConnected)
        IN  /\ ~IsConnected(d.connected, d.session)
            /\ d.tools = {}
            /\ Disconnect(d.session, d.tools, d.connected) = d

\* C20: a call_tool for a name that is not a known tool fails and sends no
\* request to the tool server.
C20_UnknownToolNotSent ==
    (lastCall.api # "none" /\ lastCall.name \notin ServerTools)
        => (CallFailed(lastCall) /\ lastCall.result.sent = 0)

\* C21: a call whose arguments lack a field the tool schema requires is
\* rejected before any request is sent to the tool server.
C21_MissingFieldRejected ==
    (lastCall.api # "none" /\ lastCall.args = ARGS_MISSING_REQUIRED)
        => (CallFailed(lastCall) /\ lastCall.result.sent = 0)

\* C22: the delay MCPClient.connect sleeps after its k-th failed attempt is
\* retry_delay * k, so the delays of one connect are strictly increasing.
C22_DelayGrowsWithAttempt ==
    /\ \A k \in 1 .. Len(slept) : slept[k] = retry_delay * k
    /\ \A j, k \in 1 .. Len(slept) : j < k => slept[j] < slept[k]

\* C23: whenever MCPClient.is_connected is true, the session the client
\* holds is open: it has not been closed since connect stored it.
C23_ConnectedSessionIsOpen ==
    (mgrClient /\ connPc = "idle" /\ IsConnected(clientConnected, clientSession))
        => clientSession = "open"

(***************************************************************************)
(* Properties of the coroutines that share the tool server (CallersSpec).  *)
(***************************************************************************)
\* the caller is inside a connection sequence: it has opened its SSE
\* transport and its initialize is not yet answered
Connecting(p) == callers[p].pc = "initializing"

\* C11: at any time at most one caller is inside a connection sequence
\* (open the SSE transport, initialize); a later caller does not open its own.
C11_SingleConnectionSequence ==
    Cardinality({p \in Callers : Connecting(p)}) <= 1

\* C16: a remote operation that awaits the tool server is bounded by a
\* timeout: whatever the server does, also when it never answers, the awaiting
\* caller has a step of its own to take and so returns.
C16_RemoteCallsHaveTimeout ==
    \A p \in Callers :
        callers[p].pc \in {"initializing", "calling"} => ENABLED CallerStep(p)

\* C17: no two workflows write the same range, and no write_range targets a
\* row that already holds data.
C17_NoOverlappingWrites ==
    /\ \A p, q \in Callers :
          (p # q /\ callers[p].wrote /\ callers[q].wrote)
             => callers[p].range # callers[q].range
    /\ \A p \in Callers : ~callers[p].overwrote

\* C18: the range a workflow writes to is a range string the tool server
\* supplied; it is not built from a parsed range and a locally counted row.
C18_RangeSuppliedByServer ==
    \A p \in Callers :
        callers[p].range # NoRange => callers[p].range \in callers[p].supplied

(***************************************************************************)
(* Properties of the batch pipeline (BatchSpec).                           *)
(***************************************************************************)
\* C24: only transactions whose action is REGISTER after the validation step
\* are handed to the writer step; a transaction whose action is SKIP or
\* REVIEW is neither handed over nor written; and the writer step is not run
\* when no MCP session has been set up.
C24_OnlyRegisterReachesWriter ==
    /\ \A id \in handed : txs[id].action = REGISTER
    /\ \A id \in DOMAIN txs :
          txs[id].action \in {SKIP, REVIEW} => (id \notin handed /\ id \notin acked)
    /\ acked \subseteq handed
    /\ (bpc = "writing" \/ handed # {}) => orch.mcp_session
    /\ ~orch.mcp_session => (acked = {} /\ written = 0)

\* C24 witness: a batch with one transaction to register and one skipped
\* went through the writer, and only the first was handed over and written
C24_SkippedLeftOut ==
    /\ bpc = "returned"
    /\ handed = {"tx1"}
    /\ acked = {"tx1"}
    /\ txs["tx1"].action = REGISTER
    /\ "tx2" \in DOMAIN txs
    /\ txs["tx2"].action = SKIP

\* C25: an output of the validation step changes only transactions that
\* were submitted for validation; those that were SKIP or REVIEW when the
\* validation began stay as they were.
C25_ValidationTouchesOnlySubmitted ==
    [][(bpc = "validating" /\ outputs' = outputs + 1)
          => \A id \in DOMAIN txs \ submitted : txs'[id] = txs[id]]_vars

\* C26: the written count process_transactions returns does not exceed the
\* number of rows the tool server acknowledged.
C26_WrittenWithinAcknowledged ==
    bpc = "returned" => written <= Cardinality(acked)

\* C29: a categorization output whose application fails leaves every
\* transaction as it was.
C29_FailedOutputChangesNothing ==
    [][(bpc = "categorizing" /\ outputs' = outputs + 1 /\ lastFailed')
          => txs' = txs]_vars

(***************************************************************************)
(* Properties of get_next_row (ToolSpec).                                  *)
(***************************************************************************)
\* range_to_write written out for each range given: the sheet and column
\* letters of a well-formed range, the default range for the others
ExpectedRangeToWrite(range_to_read, row) ==
    CASE range_to_read = <<"Gastos", "!", "A", "1", ":", "E", "200">> ->
            <<"Gastos", "!", "A", ToString(row), ":", "E", ToString(row)>>
      [] range_to_read = <<"Gastos", "!", "1", ":", "200">> ->
            <<"Gastos", "!", ToString(row), ":", ToString(row)>>
      [] OTHER ->
            <<"Gastos", "!", "A", ToString(row), ":", "E", ToString(row)>>

\* the remote read succeeded and its first value range has a row
ReadHasRows(o) == o.kind = K_JSON_OBJECT /\ o.rows >= 1

\* C27: get_next_row returns success exactly when the remote read succeeded
\* and its first value range holds at least one row; then next_row is the
\* number of rows plus one and range_to_write is the sheet and the column
\* letters of the input with that row, or Gastos!A<row>:E<row> when the
\* input cannot be split; otherwise it returns success = false and an error.
C27_NextRowResult ==
    toolOutput.returned =>
        /\ toolOutput.success <=> ReadHasRows(toolInput.o)
        /\ ReadHasRows(toolInput.o) =>
              /\ toolOutput.next_row = toolInput.o.rows + 1
              /\ toolOutput.range_to_write =
                    ExpectedRangeToWrite(toolInput.range_to_read, toolOutput.next_row)
        /\ ~ReadHasRows(toolInput.o) => toolOutput.error # None

\* C27 witness: a read of two rows of a range without a sheet name gave row
\* three of the default range
C27_DefaultRangeUsed ==
    /\ toolOutput.returned
    /\ toolOutput.success
    /\ toolInput.range_to_read = <<"A", "1", ":", "E", "200">>
    /\ toolInput.o.rows = 2
    /\ toolOutput.next_row = 3
    /\ toolOutput.range_to_write = <<"Gastos", "!", "A", "3", ":", "E", "3">>

(***************************************************************************)
(* Properties of MCPServerManager and run_agent_pipeline (ServerSpec).     *)
(***************************************************************************)
\* C28: every spawned server process is terminated and no handle is kept:
\* a process that still runs is the one the manager holds, and when the
\* pipeline has exited the manager holds no process and is not running.
C28_SpawnedProcessesTerminated ==
    /\ \A i \in 1 .. Len(procs) : procs[i] = PROC_RUNNING => server.process = i
    /\ pipePc = "exited" => (server.process = 0 /\ ~server.is_running)

(***************************************************************************)
(* Properties of TransactionValidator (ValidatorSpec).                     *)
(***************************************************************************)
PriorityOf(name) == (CHOOSE r \in RulePool : r.name = name).priority

\* the rules of the list whose condition holds for the transaction
Matching(rs, tx) ==
    SelectSeq(rs, LAMBDA r : tx \in r.holds /\ tx \notin r.raises)

\* C30: the rule list is in non-increasing priority after construction and
\* after every add_rule, and validate applies the matching rules in the
\* order of the list, higher priority first.
C30_RulesByPriority ==
    /\ [](\A i, j \in 1 .. Len(rules) :
            i < j => rules[i].priority >= rules[j].priority)
    /\ [](\A i, j \in 1 .. Len(applied.order) :
            i < j => PriorityOf(applied.order[i]) >= PriorityOf(applied.order[j]))
    /\ [][(applied' # applied /\ applied'.tx # "none")
            => /\ Len(applied'.order) = Len(Matching(rules, applied'.tx))
               /\ \A k \in 1 .. Len(applied'.order) :
                     applied'.order[k] = Matching(rules, applied'.tx)[k].name]_vars

\* C30 witness: three rules of different priorities are held, highest first,
\* and all three were applied to a transaction in that order
C30_AppliedHighestFirst ==
    /\ Len(rules) = 3
    /\ rules[1].name = "r_alta"
    /\ rules[3].name = "r_baja"
    /\ applied.tx = "cajero"
    /\ applied.order = <<"r_alta", "r_media_b", "r_baja">>

====
